---- MODULE Spec2Model ----
(***************************************************************************)
(* A model of the write-batching engine (bulk.go: Bulk, its queue of       *)
(* bulkAction batches and Run), of the transaction controller              *)
(* (transaction.go: Transaction, Commit, Abort) and of the test server     *)
(* (dbtest/dbserver.go: DBServer) of the mgo driver.                       *)
(*                                                                         *)
(* Every Go value that travels through an interface{} parameter is a       *)
(* record [go |-> <literal>], so that any two of them can be compared.     *)
(***************************************************************************)
EXTENDS Integers, Sequences, FiniteSets, TLC

(* ------------------------------ bounds -------------------------------- *)

\* The longest argument list of one Insert, Update or UpdateAll call.
MaxArgs == 2
\* The largest number of payloads (documents and directives) in the queue.
MaxDocs == 3
\* The largest number of payloads in a queue that Run is called on.
MaxRunDocs == 2
\* The largest number of batches in the queue.
MaxBatches == 3
\* The largest number of commit/abort requests one session receives.
MaxRequests == 3
\* The largest transaction number a session hands out.
MaxTxn == 2
\* The largest number of sessions obtained from a DBServer and not yet closed.
MaxCopies == 2

(* --------------------------- values of the program -------------------- *)

\* bulk.go:22-26, iota + 1
bulkInsert == 1
bulkUpdate == 2
bulkUpdateAll == 3

\* The untyped nil an interface{} argument may hold.
Nil == [go |-> "nil"]
\* bson.D{}: the empty document, which selects every document.
EmptyD == [go |-> "bson.D{}"]

\* Documents a caller hands to Insert.
Documents == {[go |-> "bson.M{_id:1}"], [go |-> "bson.M{_id:2}"]}
\* Selectors a caller hands to Update and UpdateAll (first of each pair): the
\* two that the claims tell apart.
Selectors == {Nil, EmptyD}
\* Update expressions a caller hands to Update and UpdateAll (second of each pair).
Updates == {[go |-> "bson.M{$set:{n:1}}"]}

\* b.c.FullName
FullName == "test.c"

\* Go's nil error, and the error value with message number k.
NoErr == [kind |-> "nil"]
Err(k) == [kind |-> "error", msg |-> k]

\* &bulkError{err}
BulkError(err) == [kind |-> "bulkError", err |-> err]

\* (e *bulkError) Error(): the message of the wrapped error.
RECURSIVE ErrorString(_)
ErrorString(e) ==
    IF e.kind = "bulkError" THEN ErrorString(e.err)
    ELSE IF e.kind = "error" THEN e.msg
    ELSE 0

(* ------------------------------- state -------------------------------- *)

VARIABLES
    ordered,    \* Bulk.ordered
    actions,    \* Bulk.actions: the queue of batches [op, docs]
    queued,     \* history: every payload queued so far, in call order
    lastOp,     \* the most recent call on the Bulk
    nargs,      \* the number of arguments of that call
    nils,       \* the number of nil selectors that call replaced
    panicked,   \* whether that call panicked
    sent,       \* the writeOp calls issued by the most recent call, in order
    ret,        \* what the most recent call returned
    rerun,      \* whether the most recent call is a Run that followed a Run
    dispatched, \* whether some Run of this Bulk has issued a writeOp call
    session,    \* Transaction.session
    started,    \* Transaction.started
    finished,   \* Transaction.finished
    txnNumber,  \* Transaction.txnNumber
    requests,   \* the CommitTransaction/AbortTransaction calls the session received
    reply,      \* what the session answered to the last of them
    tlast,      \* the most recent call on the Transaction
    tret,       \* what that call returned
    dbs,        \* the DBServer: [session, server, dbpath, host, engine, rs,
                \* disableMonitor, wtCacheSizeGB, tomb]
    mongod,     \* the mongod process: "none", "running" or "exited"
    copies,     \* the sessions obtained from the DBServer and not yet closed
    data,       \* whether the server stores a database of the tests
    stopped,    \* history: a Stop has stopped the server
    dbsLast,    \* the most recent call on the DBServer
    dbsPanic    \* the panic that ended it, "" if it returned

bulkVars == <<ordered, actions, queued, lastOp, nargs, nils, panicked, sent, ret,
              rerun, dispatched>>
txnVars == <<session, started, finished, txnNumber, requests, reply, tlast, tret>>
dbsVars == <<dbs, mongod, copies, data, stopped, dbsLast, dbsPanic>>
vars == <<ordered, actions, queued, lastOp, nargs, nils, panicked, sent, ret,
          rerun, dispatched,
          session, started, finished, txnNumber, requests, reply, tlast, tret,
          dbs, mongod, copies, data, stopped, dbsLast, dbsPanic>>

\* What a call that returns nothing leaves in ret.
NoReturn == [result |-> "none", err |-> NoErr]

(* ------------------------- queueing (bulk.go:59-138) ------------------ *)

\* bulkAction{op: op}
bulkAction(op) == [op |-> op, docs |-> <<>>]

\* &updateOp{Collection, Selector, Update, Flags, Multi}
updateOp(selector, update, flags, multi) ==
    [Collection |-> FullName, Selector |-> selector, Update |-> update,
     Flags |-> flags, Multi |-> multi]

\* Faulty variant: the selector is stored as it was given.
SelectorKept(selector) == selector

\* if selector == nil { selector = bson.D{} }
Selector(selector) == IF selector = Nil THEN EmptyD ELSE selector

\* The number of payloads in the queue.
RECURSIVE TotalDocs(_)
TotalDocs(acts) ==
    IF acts = <<>> THEN 0 ELSE Len(Head(acts).docs) + TotalDocs(Tail(acts))

\* The first batch of acts with operation op.
FirstOf(acts, op) ==
    CHOOSE i \in 1..Len(acts) :
        /\ acts[i].op = op
        /\ \A j \in 1..(i - 1) : acts[j].op # op

\* Faulty variant: Bulk.action that searches the queue in ordered mode too.
actionAlwaysSearches(acts, ord, op) ==
    IF Len(acts) > 0 /\ acts[Len(acts)].op = op
    THEN [actions |-> acts, i |-> Len(acts)]
    ELSE IF \E i \in 1..Len(acts) : acts[i].op = op
    THEN [actions |-> acts, i |-> FirstOf(acts, op)]
    ELSE [actions |-> Append(acts, [op |-> op, docs |-> <<>>]),
          i |-> Len(acts) + 1]

\* Faulty variant: Bulk.action that never searches the queue.
actionNeverSearches(acts, ord, op) ==
    IF Len(acts) > 0 /\ acts[Len(acts)].op = op
    THEN [actions |-> acts, i |-> Len(acts)]
    ELSE [actions |-> Append(acts, [op |-> op, docs |-> <<>>]),
          i |-> Len(acts) + 1]

\* Faulty variant: Bulk.action that looks at the last batch in unordered mode only.
actionSkipsLast(acts, ord, op) ==
    IF ~ord /\ Len(acts) > 0 /\ acts[Len(acts)].op = op
    THEN [actions |-> acts, i |-> Len(acts)]
    ELSE IF ~ord /\ \E i \in 1..Len(acts) : acts[i].op = op
    THEN [actions |-> acts, i |-> FirstOf(acts, op)]
    ELSE [actions |-> Append(acts, [op |-> op, docs |-> <<>>]),
          i |-> Len(acts) + 1]

\* Bulk.action: the queue after the call and the index of the batch it returns.
action(acts, ord, op) ==
    IF Len(acts) > 0 /\ acts[Len(acts)].op = op
    THEN [actions |-> acts, i |-> Len(acts)]
    ELSE IF ~ord /\ \E i \in 1..Len(acts) : acts[i].op = op
    THEN [actions |-> acts, i |-> FirstOf(acts, op)]
    ELSE [actions |-> Append(acts, bulkAction(op)), i |-> Len(acts) + 1]

\* action.docs = append(action.docs, docs...) on the batch Bulk.action returned.
appendDocs(a, docs) == [a.actions EXCEPT ![a.i].docs = @ \o docs]

\* The loop of Update and UpdateAll: one updateOp for each pair.
updateDocs(pairs, flags, multi) ==
    [k \in 1..(Len(pairs) \div 2) |->
        updateOp(Selector(pairs[2 * k - 1]), pairs[2 * k], flags, multi)]

\* The queue after Insert(docs...).
InsertQueue(acts, ord, docs) == appendDocs(action(acts, ord, bulkInsert), docs)

\* The queue after Update(pairs...), for an even number of arguments.
UpdateQueue(acts, ord, pairs) ==
    appendDocs(action(acts, ord, bulkUpdate), updateDocs(pairs, 0, FALSE))

\* The queue after UpdateAll(pairs...), for an even number of arguments.
UpdateAllQueue(acts, ord, pairs) ==
    appendDocs(action(acts, ord, bulkUpdate), updateDocs(pairs, 2, TRUE))

\* The argument lists of Insert over the documents D.
DocLists(D) == UNION {[1..n -> D] : n \in 0..MaxArgs}

\* The argument lists of Update and UpdateAll over the selectors S: selectors
\* at the odd places, update expressions at the even ones, of any length.
PairLists(S) ==
    UNION {{p \in [1..n -> S \cup Updates] :
                \A i \in 1..n : IF i % 2 = 1 THEN p[i] \in S
                                             ELSE p[i] \in Updates} :
           n \in 0..MaxArgs}

\* The number of nil selectors in an argument list of Update or UpdateAll.
NilSelectors(pairs) ==
    Cardinality({i \in 1..Len(pairs) : i % 2 = 1 /\ pairs[i] = Nil})

\* The queue stays within the bounds of the model.
Fits(acts) == Len(acts) <= MaxBatches /\ TotalDocs(acts) <= MaxDocs

\* Collection.Bulk, then any calls on the Bulk.
Unordered ==
    /\ ordered' = FALSE
    /\ lastOp' = "Unordered"
    /\ nargs' = 0
    /\ nils' = 0
    /\ panicked' = FALSE
    /\ sent' = <<>>
    /\ ret' = NoReturn
    /\ rerun' = FALSE
    /\ UNCHANGED dispatched
    /\ UNCHANGED <<actions, queued>>

Insert(docs) ==
        /\ Fits(InsertQueue(actions, ordered, docs))
        /\ actions' = InsertQueue(actions, ordered, docs)
        /\ queued' = queued \o docs
        /\ lastOp' = "Insert"
        /\ nargs' = Len(docs)
        /\ nils' = 0
        /\ panicked' = FALSE
        /\ sent' = <<>>
        /\ ret' = NoReturn
        /\ rerun' = FALSE
        /\ UNCHANGED dispatched
        /\ UNCHANGED ordered

\* Faulty variant: Update without the check of the number of arguments, which panics
\* at pairs[i+1] once the whole pairs are queued.
UpdateUnchecked(pairs) ==
        /\ Fits(UpdateQueue(actions, ordered, pairs))
        /\ lastOp' = "Update"
        /\ nargs' = Len(pairs)
        /\ nils' = NilSelectors(pairs)
        /\ sent' = <<>>
        /\ ret' = NoReturn
        /\ rerun' = FALSE
        /\ UNCHANGED dispatched
        /\ UNCHANGED ordered
        /\ panicked' = (Len(pairs) % 2 # 0)
        /\ actions' = UpdateQueue(actions, ordered, pairs)
        /\ queued' = queued \o updateDocs(pairs, 0, FALSE)

Update(pairs) ==
        /\ lastOp' = "Update"
        /\ nargs' = Len(pairs)
        /\ sent' = <<>>
        /\ ret' = NoReturn
        /\ rerun' = FALSE
        /\ UNCHANGED dispatched
        /\ UNCHANGED ordered
        /\ IF Len(pairs) % 2 # 0
           THEN /\ panicked' = TRUE
                /\ nils' = 0
                /\ UNCHANGED <<actions, queued>>
           ELSE /\ Fits(UpdateQueue(actions, ordered, pairs))
                /\ panicked' = FALSE
                /\ nils' = NilSelectors(pairs)
                /\ actions' = UpdateQueue(actions, ordered, pairs)
                /\ queued' = queued \o updateDocs(pairs, 0, FALSE)

UpdateAll(pairs) ==
        /\ lastOp' = "UpdateAll"
        /\ nargs' = Len(pairs)
        /\ sent' = <<>>
        /\ ret' = NoReturn
        /\ rerun' = FALSE
        /\ UNCHANGED dispatched
        /\ UNCHANGED ordered
        /\ IF Len(pairs) % 2 # 0
           THEN /\ panicked' = TRUE
                /\ nils' = 0
                /\ UNCHANGED <<actions, queued>>
           ELSE /\ Fits(UpdateAllQueue(actions, ordered, pairs))
                /\ panicked' = FALSE
                /\ nils' = NilSelectors(pairs)
                /\ actions' = UpdateAllQueue(actions, ordered, pairs)
                /\ queued' = queued \o updateDocs(pairs, 2, TRUE)

(* --------------------------- Run (bulk.go:140-196) -------------------- *)

\* &insertOp{b.c.FullName, action.docs, flags}
insertOp(docs, flags) ==
    [collection |-> FullName, documents |-> docs, flags |-> flags]

\* One call b.c.writeOp(op, b.ordered) and the error it returned.
writeOp(op, ord, err) == [op |-> op, ordered |-> ord, err |-> err]

\* The number of writeOp calls a Run issues at most: one for each insert batch,
\* one for each directive of an update batch.
RECURSIVE MaxWrites(_)
MaxWrites(acts) ==
    IF acts = <<>> THEN 0
    ELSE (IF Head(acts).op = bulkInsert THEN 1 ELSE Len(Head(acts).docs))
         + MaxWrites(Tail(acts))

\* The error the dispatcher returns to the k-th writeOp call of a Run of which
\* the calls numbered in fails fail.
writeErr(fails, k) == IF k \in fails THEN Err(k) ELSE NoErr

\* Faulty variant: Bulk.runInsert that keeps an error berr already holds.
runInsertKeepsFirst(act, ord, outs, r) ==
    LET op == [collection |-> FullName, documents |-> act.docs,
               flags |-> IF ~ord THEN 1 ELSE 0]
        err == writeErr(outs, Len(r.sent) + 1)
        s == Append(r.sent, [op |-> op, ordered |-> ord, err |-> err])
    IN  IF err # NoErr
        THEN [ok |-> FALSE,
              r |-> [r EXCEPT !.sent = s,
                              !.berr = IF @ = NoErr THEN err ELSE @]]
        ELSE [ok |-> TRUE, r |-> [r EXCEPT !.sent = s]]

\* Faulty variant: Bulk.runInsert that leaves op.flags at zero in either mode.
runInsertNoFlag(act, ord, outs, r) ==
    LET op == insertOp(act.docs, 0)
        err == writeErr(outs, Len(r.sent) + 1)
        s == Append(r.sent, writeOp(op, ord, err))
    IN  IF err # NoErr
        THEN [ok |-> FALSE, r |-> [r EXCEPT !.sent = s, !.berr = err]]
        ELSE [ok |-> TRUE, r |-> [r EXCEPT !.sent = s]]

\* Bulk.runInsert on the run state r = [sent, berr, failed, panic].
runInsert(act, ord, outs, r) ==
    LET op == insertOp(act.docs, IF ~ord THEN 1 ELSE 0)
        err == writeErr(outs, Len(r.sent) + 1)
        s == Append(r.sent, writeOp(op, ord, err))
    IN  IF err # NoErr
        THEN [ok |-> FALSE, r |-> [r EXCEPT !.sent = s, !.berr = err]]
        ELSE [ok |-> TRUE, r |-> [r EXCEPT !.sent = s]]

\* Faulty variant: the loop of Bulk.runUpdate without its break.
updateNeverBreaks(ord) == FALSE

\* if b.ordered { break }, in the loop of Bulk.runUpdate.
updateBreaks(ord) == ord

\* Faulty variant: the loop of Bulk.Run breaks at a failed batch in either mode.
runAlwaysBreaks(ord) == TRUE

\* if b.ordered { break }, in the loop of Bulk.Run.
runBreaks(ord) == ord

\* The loop of Bulk.runUpdate from directive j on; ok is the loop's flag so far.
RECURSIVE runUpdateFrom(_, _, _, _, _, _)
runUpdateFrom(docs, j, ord, outs, ok, r) ==
    IF j > Len(docs) THEN [ok |-> ok, r |-> r]
    ELSE LET err == writeErr(outs, Len(r.sent) + 1)
             s == Append(r.sent, writeOp(docs[j], ord, err))
         IN  IF err # NoErr
             THEN LET r2 == [r EXCEPT !.sent = s, !.berr = BulkError(err)]
                  IN  IF updateBreaks(ord) THEN [ok |-> FALSE, r |-> r2]
                      ELSE runUpdateFrom(docs, j + 1, ord, outs, FALSE, r2)
             ELSE runUpdateFrom(docs, j + 1, ord, outs, ok, [r EXCEPT !.sent = s])

\* Faulty variant: Bulk.runUpdate that walks action.docs from its last
\* directive to its first.
runUpdateBackwards(act, ord, outs, r) ==
    runUpdateFrom([j \in 1..Len(act.docs) |-> act.docs[Len(act.docs) + 1 - j]],
                  1, ord, outs, TRUE, r)

\* Bulk.runUpdate
runUpdate(act, ord, outs, r) == runUpdateFrom(act.docs, 1, ord, outs, TRUE, r)

\* The loop of Bulk.Run from batch i on.
RECURSIVE runFrom(_, _, _, _, _)
runFrom(acts, i, ord, outs, r) ==
    IF i > Len(acts) THEN r
    ELSE IF acts[i].op \notin {bulkInsert, bulkUpdate}
    THEN [r EXCEPT !.panic = TRUE]
    ELSE LET res == IF acts[i].op = bulkInsert
                    THEN runInsert(acts[i], ord, outs, r)
                    ELSE runUpdate(acts[i], ord, outs, r)
         IN  IF ~res.ok
             THEN LET r2 == [res.r EXCEPT !.failed = TRUE]
                  IN  IF runBreaks(ord) THEN r2 ELSE runFrom(acts, i + 1, ord, outs, r2)
             ELSE runFrom(acts, i + 1, ord, outs, res.r)

\* Bulk.Run up to its return statements: var berr bulkError; var failed bool; the loop.
run(acts, ord, outs) ==
    runFrom(acts, 1, ord, outs,
            [sent |-> <<>>, berr |-> NoErr, failed |-> FALSE, panic |-> FALSE])

\* Faulty variant: Bulk.Run that returns its result along with the error.
runReturnsBoth(r) ==
    IF r.failed THEN [result |-> "&result", err |-> BulkError(r.berr)]
    ELSE [result |-> "&result", err |-> NoErr]

\* The return statements of Bulk.Run: (nil, &berr) or (&result, nil).
runReturn(r) ==
    IF r.failed THEN [result |-> "nil", err |-> BulkError(r.berr)]
    ELSE [result |-> "&result", err |-> NoErr]

\* Faulty variant: Bulk.Run that empties b.actions before it returns.
RunClears(outs) ==
        \E r \in {run(actions, ordered, outs)} :
            /\ lastOp' = "Run"
            /\ nargs' = 0
            /\ nils' = 0
            /\ sent' = r.sent
            /\ panicked' = r.panic
            /\ ret' = IF r.panic THEN NoReturn ELSE runReturn(r)
            /\ rerun' = (lastOp = "Run")
            /\ dispatched' = (dispatched \/ r.sent # <<>>)
            /\ actions' = <<>>
            /\ UNCHANGED <<ordered, queued>>

\* Bulk.Run, of whose writeOp calls those numbered in outs fail.
Run(outs) ==
        \E r \in {run(actions, ordered, outs)} :
            /\ lastOp' = "Run"
            /\ nargs' = 0
            /\ nils' = 0
            /\ sent' = r.sent
            /\ panicked' = r.panic
            /\ ret' = IF r.panic THEN NoReturn ELSE runReturn(r)
            /\ rerun' = (lastOp = "Run")
            /\ dispatched' = (dispatched \/ r.sent # <<>>)
            /\ UNCHANGED <<ordered, actions, queued>>

(* ------------------- Transaction (transaction.go:36-64) --------------- *)

\* The sessions a Transaction may be bound to.
Sessions == {"s1", "s2"}

\* The errors Session.CommitTransaction and Session.AbortTransaction may return.
SessionErrs == {NoErr, Err(1), Err(2)}

\* One call the session received.
request(s, kind, n) == [session |-> s, kind |-> kind, txnNumber |-> n]

\* What Commit and Abort return: the err of their first statement.
commitReturn(err) == err

\* Faulty variant: t.finished is set when the session returned no error.
commitFinishedOnSuccess(err) == err = NoErr

\* What Commit and Abort leave in t.finished.
commitFinished(err) == TRUE

\* The first transactional write on the bound session: the session assigns the
\* transaction number and the transaction is started.
TxnWrite ==
    /\ ~started
    /\ \E n \in 1..MaxTxn : txnNumber' = n
    /\ started' = TRUE
    /\ tlast' = "Write"
    /\ tret' = NoErr
    /\ UNCHANGED <<session, finished, requests, reply>>

\* Faulty variant: a Commit on a finished transaction returns without calling
\* the session.
CommitOnce(err) ==
        /\ Len(requests) < MaxRequests
        /\ requests' = IF finished THEN requests
                        ELSE Append(requests, request(session, "CommitTransaction", txnNumber))
        /\ reply' = IF finished THEN reply ELSE err
        /\ finished' = commitFinished(err)
        /\ tret' = IF finished THEN Err(0) ELSE commitReturn(err)
        /\ tlast' = "Commit"
        /\ UNCHANGED <<session, started, txnNumber>>

Commit(err) ==
        /\ Len(requests) < MaxRequests
        /\ requests' = Append(requests, request(session, "CommitTransaction", txnNumber))
        /\ reply' = err
        /\ finished' = commitFinished(err)
        /\ tret' = commitReturn(err)
        /\ tlast' = "Commit"
        /\ UNCHANGED <<session, started, txnNumber>>

Abort(err) ==
        /\ Len(requests) < MaxRequests
        /\ requests' = Append(requests, request(session, "AbortTransaction", txnNumber))
        /\ reply' = err
        /\ finished' = commitFinished(err)
        /\ tret' = commitReturn(err)
        /\ tlast' = "Abort"
        /\ UNCHANGED <<session, started, txnNumber>>

(* --------------------- DBServer (dbtest/dbserver.go) ------------------ *)

\* The directories SetPath is called with; "" is the zero value of dbpath.
Paths == {"/db"}
\* The storage engines SetEngine is called with.
Engines == {"mmapv1", "wiredTiger"}
\* The cache sizes SetWiredTigerCacheSize is called with, in GB.
CacheSizes == {"1"}

\* What the surroundings of one call do to it: the step that fails (net.Listen,
\* exec.Cmd.Start, rs.initiate(), mgo.DialWithInfo, DatabaseNames,
\* DropDatabase), the value of CHECK_SESSIONS, whether sockets of session
\* copies stay alive through checkSessions, and whether mongod takes more
\* than five seconds to die.
Faults == {"none", "listen", "start", "initiate", "dial", "names", "drop"}
Surroundings == [fault : Faults, check : {"0", "1"}, leak : BOOLEAN, slow : BOOLEAN]

\* The DBServer and its surroundings as one value that the methods hand on;
\* panic holds the message of the panic that ended the call, "" if none.
world ==
    [dbs |-> dbs, mongod |-> mongod, copies |-> copies, data |-> data,
     stopped |-> stopped, panic |-> ""]

\* panic(msg)
panic(w, msg) == [w EXCEPT !.panic = msg]

\* DBServer.checkSessions
checkSessions(w, in) ==
    IF in.check = "0" \/ w.dbs.server = "nil" \/ w.dbs.session = "nil" THEN w
    ELSE LET w1 == [w EXCEPT !.dbs.session = "nil"]
         IN  IF in.leak /\ w.copies > 0
             THEN panic(w1, "There are mgo sessions still alive.")
             ELSE w1

RECURSIVE start(_, _, _)
RECURSIVE sessionRepl(_, _, _)
RECURSIVE wipe(_, _)

\* DBServer.start; the arguments handed to mongod are left out.
start(w, repl, in) ==
    LET w1 == [w EXCEPT !.dbs.engine = IF @ = "" THEN "mmapv1" ELSE @]
    IN  IF w1.dbs.server # "nil" THEN panic(w1, "DBServer already started")
        ELSE IF w1.dbs.dbpath = ""
        THEN panic(w1, "DBServer.SetPath must be called before using the server")
        ELSE IF in.fault = "listen"
        THEN panic(w1, "unable to listen on a local address")
        ELSE LET w2 == [w1 EXCEPT
                           !.dbs.host = "127.0.0.1:port",
                           !.dbs.wtCacheSizeGB =
                               IF w1.dbs.engine = "wiredTiger" /\ @ = "0"
                               THEN "0.1" ELSE @,
                           !.dbs.tomb = "zero",
                           !.dbs.server = "cmd"]
             IN  IF in.fault = "start" THEN panic(w2, "mongod failed to start")
                 ELSE LET w3 == [w2 EXCEPT !.mongod = "running"]
                      IN  IF w3.dbs.rs /\ in.fault = "initiate"
                          THEN panic(w3, "replicaset initiate failed")
                          ELSE wipe([w3 EXCEPT !.dbs.tomb =
                                         IF w3.dbs.disableMonitor THEN @
                                         ELSE "alive"],
                                    in)

\* DBServer.SessionRepl; the session it returns is one more copy in use.
sessionRepl(w, repl, in) ==
    LET w1 == IF w.dbs.server = "nil" THEN start(w, repl, in) ELSE w
    IN  IF w1.panic # "" THEN w1
        ELSE IF w1.dbs.session # "nil" THEN [w1 EXCEPT !.copies = @ + 1]
        ELSE IF in.fault = "dial" \/ w1.mongod # "running"
        THEN panic(w1, "no reachable servers")
        ELSE [w1 EXCEPT !.dbs.session = "open", !.copies = @ + 1]

\* DBServer.Wipe; its deferred session.Close() returns the copy it took.
wipe(w, in) ==
    IF w.dbs.server = "nil" \/ w.dbs.session = "nil" THEN w
    ELSE LET w1 == checkSessions(w, in)
         IN  IF w1.panic # "" THEN w1
             ELSE LET sessionUnset == w1.dbs.session = "nil"
                      w2 == sessionRepl(w1, FALSE, in)
                      w3 == [w2 EXCEPT !.copies = @ - 1,
                                       !.dbs.session =
                                           IF sessionUnset THEN "nil" ELSE @]
                  IN  IF w2.panic # "" THEN w2
                      ELSE IF in.fault = "names"
                      THEN panic(w3, "DatabaseNames failed")
                      ELSE IF in.fault = "drop" /\ w3.data
                      THEN panic(w3, "DropDatabase failed")
                      ELSE [w3 EXCEPT !.data = FALSE]

\* dbs.tomb.Kill(nil)
tombKill(t) ==
    IF t = "alive" THEN "dying" ELSE IF t = "zero" THEN "killed" ELSE t

\* The second half of DBServer.Stop, on a server that is not nil. The tomb is
\* dead once the monitor goroutine has returned, which it does when mongod
\* has exited; a tomb that tracks no goroutine is never dead.
stopServer(w, in) ==
    LET w1 == [w EXCEPT !.dbs.tomb = tombKill(@)]
    IN  IF w1.mongod = "none" THEN panic(w1, "nil pointer dereference")
        ELSE IF w1.dbs.tomb = "dying" /\ ~in.slow
        THEN [w1 EXCEPT !.dbs.tomb = "dead", !.mongod = "exited",
                        !.dbs.server = "nil", !.stopped = TRUE]
        ELSE panic([w1 EXCEPT !.mongod = IF in.slow THEN @ ELSE "exited"],
                   "timeout waiting for mongod process to die")

\* DBServer.Stop
stop(w, in) ==
    LET w1 == IF w.dbs.session = "nil" THEN w
              ELSE LET c == checkSessions(w, in)
                   IN  IF c.panic # "" THEN c
                       ELSE [c EXCEPT !.dbs.session = "nil"]
    IN  IF w1.panic # "" THEN w1
        ELSE IF w1.dbs.server = "nil" THEN w1
        ELSE stopServer(w1, in)

\* A method of the DBServer has returned or panicked, leaving w.
Returns(name, w) ==
    /\ dbs' = w.dbs
    /\ mongod' = w.mongod
    /\ copies' = w.copies
    /\ data' = w.data
    /\ stopped' = w.stopped
    /\ dbsPanic' = w.panic
    /\ dbsLast' = name

SetPath(dbpath) == Returns("SetPath", [world EXCEPT !.dbs.dbpath = dbpath])

SetEngine(engine) == Returns("SetEngine", [world EXCEPT !.dbs.engine = engine])

SetReplicaSet(rs) == Returns("SetReplicaSet", [world EXCEPT !.dbs.rs = rs])

SetMonitor(enabled) ==
    Returns("SetMonitor", [world EXCEPT !.dbs.disableMonitor = ~enabled])

SetWiredTigerCacheSize(sizeGB) ==
    Returns("SetWiredTigerCacheSize", [world EXCEPT !.dbs.wtCacheSizeGB = sizeGB])

Stop(in) == \E w \in {stop(world, in)} : Returns("Stop", w)

Session(in) ==
    /\ copies < MaxCopies
    /\ \E w \in {sessionRepl(world, FALSE, in)} : Returns("Session", w)

SessionRepl(repl, in) ==
    /\ copies < MaxCopies
    /\ \E w \in {sessionRepl(world, repl, in)} : Returns("SessionRepl", w)

Wipe(in) == \E w \in {wipe(world, in)} : Returns("Wipe", w)

\* The test closes a session it obtained from Session or SessionRepl.
CloseCopy ==
    /\ copies > 0
    /\ Returns("Close", [world EXCEPT !.copies = @ - 1])

\* The test stores a document through a session it obtained.
StoreData ==
    /\ copies > 0
    /\ mongod = "running"
    /\ Returns("Store", [world EXCEPT !.data = TRUE])

(* ---------------------------- specifications -------------------------- *)

\* b := c.Bulk(), t := NewTransaction(s) and var server dbtest.DBServer
Init ==
    /\ ordered = TRUE
    /\ actions = <<>>
    /\ queued = <<>>
    /\ lastOp = "Bulk"
    /\ nargs = 0
    /\ nils = 0
    /\ panicked = FALSE
    /\ sent = <<>>
    /\ ret = NoReturn
    /\ rerun = FALSE
    /\ dispatched = FALSE
    /\ session \in Sessions
    /\ started = FALSE
    /\ finished = FALSE
    /\ txnNumber = 0
    /\ requests = <<>>
    /\ reply = NoErr
    /\ tlast = "NewTransaction"
    /\ tret = NoErr
    /\ dbs = [session |-> "nil", server |-> "nil", dbpath |-> "", host |-> "",
              engine |-> "", rs |-> FALSE, disableMonitor |-> FALSE,
              wtCacheSizeGB |-> "0", tomb |-> "zero"]
    /\ mongod = "none"
    /\ copies = 0
    /\ data = FALSE
    /\ stopped = FALSE
    /\ dbsLast = "DBServer"
    /\ dbsPanic = ""

BulkInit == Init /\ session = "s1"

\* The queues that Run is explored on.
RunFits == TotalDocs(actions) <= MaxRunDocs

\* The calls on one Bulk, Run included, over one document.
Next ==
    \/ Unordered /\ UNCHANGED <<txnVars, dbsVars>>
    \/ \E docs \in DocLists({[go |-> "bson.M{_id:1}"]}) :
           Insert(docs) /\ RunFits' /\ UNCHANGED <<txnVars, dbsVars>>
    \/ \E pairs \in PairLists(Selectors) :
           Update(pairs) /\ RunFits' /\ UNCHANGED <<txnVars, dbsVars>>
    \/ \E pairs \in PairLists(Selectors) :
           UpdateAll(pairs) /\ RunFits' /\ UNCHANGED <<txnVars, dbsVars>>
    \/ \E fails \in SUBSET (1..MaxWrites(actions)) :
           Run(fails) /\ UNCHANGED <<txnVars, dbsVars>>

Spec == BulkInit /\ [][Next]_vars

\* The queueing calls on one Bulk, over all documents.
QueueNext ==
    \/ Unordered /\ UNCHANGED <<txnVars, dbsVars>>
    \/ \E docs \in DocLists(Documents) : Insert(docs) /\ UNCHANGED <<txnVars, dbsVars>>
    \/ \E pairs \in PairLists(Selectors) : Update(pairs) /\ UNCHANGED <<txnVars, dbsVars>>
    \/ \E pairs \in PairLists(Selectors) : UpdateAll(pairs) /\ UNCHANGED <<txnVars, dbsVars>>

SpecQueue == BulkInit /\ [][QueueNext]_vars

\* The calls on one Transaction.
TxnNext ==
    \/ TxnWrite /\ UNCHANGED <<bulkVars, dbsVars>>
    \/ \E err \in SessionErrs : Commit(err) /\ UNCHANGED <<bulkVars, dbsVars>>
    \/ \E err \in SessionErrs : Abort(err) /\ UNCHANGED <<bulkVars, dbsVars>>

SpecTxn == Init /\ [][TxnNext]_vars

\* The calls on one DBServer and on the sessions obtained from it.
DBNext ==
    \/ \E dbpath \in Paths : SetPath(dbpath) /\ UNCHANGED <<bulkVars, txnVars>>
    \/ \E engine \in Engines : SetEngine(engine) /\ UNCHANGED <<bulkVars, txnVars>>
    \/ \E rs \in BOOLEAN : SetReplicaSet(rs) /\ UNCHANGED <<bulkVars, txnVars>>
    \/ \E enabled \in BOOLEAN : SetMonitor(enabled) /\ UNCHANGED <<bulkVars, txnVars>>
    \/ \E sizeGB \in CacheSizes :
           SetWiredTigerCacheSize(sizeGB) /\ UNCHANGED <<bulkVars, txnVars>>
    \/ \E in \in Surroundings : Session(in) /\ UNCHANGED <<bulkVars, txnVars>>
    \/ \E repl \in BOOLEAN, in \in Surroundings :
           SessionRepl(repl, in) /\ UNCHANGED <<bulkVars, txnVars>>
    \/ \E in \in Surroundings : Wipe(in) /\ UNCHANGED <<bulkVars, txnVars>>
    \/ \E in \in Surroundings : Stop(in) /\ UNCHANGED <<bulkVars, txnVars>>
    \/ CloseCopy /\ UNCHANGED <<bulkVars, txnVars>>
    \/ StoreData /\ UNCHANGED <<bulkVars, txnVars>>

SpecDB == BulkInit /\ [][DBNext]_vars

(* ------------------------------- claims ------------------------------- *)

\* The writeOp calls of s that returned an error.
FailedAt(s) == {k \in 1..Len(s) : s[k].err # NoErr}

\* The largest element of a non-empty set of numbers.
Last(S) == CHOOSE k \in S : \A j \in S : j <= k

\* A Run has returned.
Ran == lastOp = "Run" /\ ~panicked

\* What a Run that stops nowhere sends: an insert batch as its documents, in
\* one piece, and each directive of an update batch on its own.
RECURSIVE Payloads(_)
Payloads(acts) ==
    IF acts = <<>> THEN <<>>
    ELSE (IF Head(acts).op = bulkInsert
          THEN <<[documents |-> Head(acts).docs]>>
          ELSE Head(acts).docs)
         \o Payloads(Tail(acts))

\* What the k-th writeOp call of the last Run carried, in the form of Payloads.
SentPayload(k) ==
    IF "documents" \in DOMAIN sent[k].op
    THEN [documents |-> sent[k].op.documents]
    ELSE sent[k].op

\* C1: when Run is executed in ordered mode and a writeOp call fails, that call
\* is the last one of the Run (no later batch and no remaining directive of the
\* same update batch is sent) and Run returns the error of that call.
C1_OrderedShortCircuit ==
    (Ran /\ ordered /\ FailedAt(sent) # {}) =>
        /\ FailedAt(sent) = {Len(sent)}
        /\ ret.err # NoErr
        /\ ErrorString(ret.err) = ErrorString(sent[Len(sent)].err)

\* An ordered Run whose first call failed while two more were queued.
C1_Witness ==
    /\ Ran /\ ordered
    /\ FailedAt(sent) = {1}
    /\ Len(sent) = 1
    /\ MaxWrites(actions) = 3

\* C2: a Run in unordered mode sends every queued insert batch once and every
\* queued update directive once, whatever the earlier calls returned, and
\* returns an error if at least one of these calls failed.
C2_UnorderedFullDrain ==
    (Ran /\ ~ordered) =>
        /\ Len(sent) = Len(Payloads(actions))
        /\ \A k \in 1..Len(sent) : SentPayload(k) = Payloads(actions)[k]
        /\ FailedAt(sent) # {} => ret.err # NoErr

\* An unordered Run of three calls of which the first failed.
C2_Witness ==
    /\ Ran /\ ~ordered
    /\ Len(sent) = 3
    /\ 1 \in FailedAt(sent)
    /\ Len(actions) >= 2

\* C3: Run returns a result and no error exactly when every writeOp call it
\* issued succeeded (also when it issued none), and otherwise no result and an
\* error; never both, never neither.
C3_BinaryReturn ==
    Ran =>
        /\ ret.result \in {"&result", "nil"}
        /\ (FailedAt(sent) = {}) <=> (ret.result = "&result" /\ ret.err = NoErr)
        /\ (FailedAt(sent) # {}) <=> (ret.result = "nil" /\ ret.err # NoErr)

\* A Run that failed after a successful call.
C3_Witness ==
    /\ Ran
    /\ Len(sent) >= 2
    /\ FailedAt(sent) = {2}
    /\ ret.result = "nil"

\* A Run of an empty queue.
C3_WitnessEmpty == Ran /\ actions = <<>> /\ ret.result = "&result"

\* C4: in unordered mode, when several writeOp calls of one Run fail, the error
\* Run returns is that of the last failing call, and that of no earlier one.
C4_LastErrorWins ==
    (Ran /\ ~ordered /\ Cardinality(FailedAt(sent)) >= 2) =>
        /\ ErrorString(ret.err) = ErrorString(sent[Last(FailedAt(sent))].err)
        /\ \A k \in FailedAt(sent) \ {Last(FailedAt(sent))} :
               ErrorString(ret.err) # ErrorString(sent[k].err)

\* An unordered Run in which an update and then an insert failed.
C4_Witness ==
    /\ Ran /\ ~ordered
    /\ Cardinality(FailedAt(sent)) >= 2
    /\ "documents" \in DOMAIN sent[Last(FailedAt(sent))].op
    /\ "Selector" \in DOMAIN sent[1].op

\* The payloads of the queue, batch after batch.
RECURSIVE Flatten(_)
Flatten(acts) ==
    IF acts = <<>> THEN <<>> ELSE Head(acts).docs \o Flatten(Tail(acts))

\* The most recent call queued payloads (it was Insert, Update or UpdateAll
\* and did not panic).
Queued == lastOp \in {"Insert", "Update", "UpdateAll"} /\ ~panicked

\* The bulkOp that Bulk.action is called with by the call named name.
OpOf(name) == IF name = "Insert" THEN bulkInsert ELSE bulkUpdate

\* The payloads that the step queues.
NewDocs == SubSeq(queued', Len(queued) + 1, Len(queued'))

\* The step appends the new payloads to batch i and changes nothing else.
AppendsTo(i) == actions' = [actions EXCEPT ![i].docs = @ \o NewDocs]

\* The step puts the new payloads in a new batch at the end of the queue.
AppendsBatch == actions' = Append(actions, [op |-> OpOf(lastOp'), docs |-> NewDocs])

\* C5: while the Bulk is in ordered mode, the payloads of the queued batches,
\* taken in queue order, are the payloads in the order the calls queued them,
\* and a queueing call appends to the last batch or adds a batch at the end.
C5_OrderedKeepsOrder ==
    /\ [](ordered => Flatten(actions) = queued)
    /\ [][(ordered /\ Queued') =>
             \/ AppendsBatch
             \/ actions # <<>> /\ AppendsTo(Len(actions))]_vars

\* Ordered mode: an insert batch, an update batch, and a later Insert in a
\* third batch.
C5_Witness ==
    /\ ordered /\ lastOp = "Insert"
    /\ Len(actions) = 3
    /\ actions[1].op = bulkInsert /\ actions[1].docs # <<>>
    /\ actions[2].op = bulkUpdate /\ actions[2].docs # <<>>
    /\ actions[3].op = bulkInsert /\ actions[3].docs # <<>>

\* C6: in unordered mode, a queueing call of another kind than the last batch
\* appends its payloads to the first batch of its kind when there is one, the
\* number of batches and every other batch staying as they were; a batch is
\* created only when the queue holds no batch of that kind.
C6_UnorderedCoalesces ==
    [][(~ordered /\ Queued') =>
          LET op == OpOf(lastOp')
              has == \E i \in 1..Len(actions) : actions[i].op = op
          IN  /\ (actions # <<>> /\ actions[Len(actions)].op # op /\ has) =>
                     AppendsTo(FirstOf(actions, op))
              /\ Len(actions') # Len(actions) => (~has /\ AppendsBatch)]_vars

\* Unordered mode: an Insert joined the first batch, across an update batch.
C6_Witness ==
    /\ ~ordered /\ lastOp = "Insert" /\ nargs > 0
    /\ Len(actions) = 2
    /\ actions[1].op = bulkInsert /\ Len(actions[1].docs) >= 2
    /\ actions[2].op = bulkUpdate /\ actions[2].docs # <<>>
    /\ queued[Len(queued)] = actions[1].docs[Len(actions[1].docs)]
    /\ Flatten(actions) # queued

\* C7: in both modes a queueing call of the kind of the last batch appends to
\* that batch and creates none, so no two adjacent batches have the same kind.
C7_AdjacentMerge ==
    /\ [](\A i \in 1..(Len(actions) - 1) : actions[i].op # actions[i + 1].op)
    /\ [][(Queued' /\ actions # <<>>
              /\ actions[Len(actions)].op = OpOf(lastOp')) =>
             AppendsTo(Len(actions))]_vars

\* An Update of one pair joined the update batch that ended the queue.
C7_Witness ==
    /\ lastOp = "Update" /\ nargs = 2
    /\ Len(actions) = 2
    /\ actions[1].op = bulkInsert /\ Len(actions[1].docs) = 1
    /\ actions[2].op = bulkUpdate /\ Len(actions[2].docs) = 2

\* C8: Update and UpdateAll with an odd number of arguments panic before any
\* writeOp call and leave the queue and the ordered flag as they were.
C8_OddArgsPanic ==
    [][(lastOp' \in {"Update", "UpdateAll"} /\ nargs' % 2 = 1) =>
          /\ panicked'
          /\ sent' = <<>>
          /\ actions' = actions
          /\ ordered' = ordered]_vars

\* Update panicked on a queue that ends with an insert batch.
C8_Witness ==
    /\ lastOp = "Update" /\ nargs % 2 = 1 /\ panicked
    /\ actions # <<>>
    /\ actions[Len(actions)].op = bulkInsert

\* The argument list pairs with EmptyD in the place of every nil selector.
NilAsEmpty(pairs) ==
    [i \in 1..Len(pairs) |->
        IF i % 2 = 1 /\ pairs[i] = Nil THEN EmptyD ELSE pairs[i]]

\* The argument lists of Update and UpdateAll that do not panic.
EvenPairLists == {p \in PairLists(Selectors) : Len(p) % 2 = 0}

\* C9: from every queue, Update(nil, u) and Update(EmptyD, u) give the same
\* queue, and so do UpdateAll(nil, u) and UpdateAll(EmptyD, u); no queued
\* update directive has a nil selector.
C9_NilSelector ==
    /\ \A i \in 1..Len(actions) :
           actions[i].op = bulkUpdate =>
               \A j \in 1..Len(actions[i].docs) :
                   actions[i].docs[j].Selector # Nil
    /\ \A p \in EvenPairLists :
           /\ UpdateQueue(actions, ordered, p)
                  = UpdateQueue(actions, ordered, NilAsEmpty(p))
           /\ UpdateAllQueue(actions, ordered, p)
                  = UpdateAllQueue(actions, ordered, NilAsEmpty(p))

\* Update was called with a nil selector and queued its directive.
C9_Witness ==
    /\ lastOp = "Update" /\ nils > 0 /\ ~panicked
    /\ queued[Len(queued)].Selector = EmptyD

\* C10: Commit sends the bound session a commit request with the
\* transaction's txnNumber, leaves finished true whatever the session
\* answered, and returns that answer; Abort does so with an abort request.
C10_CommitAbort ==
    /\ tlast = "Commit" =>
           /\ requests # <<>>
           /\ requests[Len(requests)]
                  = [session |-> session, kind |-> "CommitTransaction",
                     txnNumber |-> txnNumber]
           /\ finished
           /\ tret = reply
    /\ tlast = "Abort" =>
           /\ requests # <<>>
           /\ requests[Len(requests)]
                  = [session |-> session, kind |-> "AbortTransaction",
                     txnNumber |-> txnNumber]
           /\ finished
           /\ tret = reply

\* The first Commit of a started transaction, to which the session answered
\* with an error.
C10_Witness ==
    /\ tlast = "Commit" /\ Len(requests) = 1
    /\ started /\ txnNumber = MaxTxn
    /\ reply # NoErr

\* C11: finished is terminal and a repeated call does no harm: a Commit or an
\* Abort never takes finished from true to false, whatever the session
\* answers, and a Commit or Abort on a finished transaction leaves the session
\* reference, started and txnNumber as they were.
C11_FinishedTerminal ==
    /\ [][finished => finished']_vars
    /\ [][(finished /\ tlast' \in {"Commit", "Abort"}) =>
              /\ finished'
              /\ session' = session
              /\ started' = started
              /\ txnNumber' = txnNumber]_vars

\* An Abort that followed a Commit of a started transaction, the session
\* answering the Abort with an error.
C11_Witness ==
    /\ Len(requests) = 2
    /\ requests[1].kind = "CommitTransaction"
    /\ tlast = "Abort"
    /\ reply # NoErr
    /\ started /\ txnNumber = MaxTxn
    /\ finished

\* C12 as stated: over any sequence of Commit and Abort calls the bound
\* session receives one CommitTransaction or AbortTransaction request at most.
C12_AtMostOneRequest == Len(requests) <= 1

\* C12, amended: finished does not guard Commit and Abort. Every Commit and
\* every Abort sends the bound session exactly one request carrying the
\* transaction's txnNumber, on a finished transaction as on an unfinished one,
\* so the session has received one request per call.
C12_OneRequestPerCall ==
    [][tlast' \in {"Commit", "Abort"} =>
           /\ Len(requests') = Len(requests) + 1
           /\ SubSeq(requests', 1, Len(requests)) = requests
           /\ requests'[Len(requests')]
                  = request(session,
                            IF tlast' = "Commit" THEN "CommitTransaction"
                                                 ELSE "AbortTransaction",
                            txnNumber)]_vars

\* A second Commit on a transaction the first Commit had finished: the
\* session received both requests.
C12_Witness ==
    /\ tlast = "Commit"
    /\ finished
    /\ Len(requests) = 2
    /\ requests[1].kind = "CommitTransaction"
    /\ requests[2].kind = "CommitTransaction"

\* C13: Run leaves the queue and the ordered flag as they were, so a Run that
\* follows a Run starts again at the first queued batch and, where it stops
\* nowhere, sends every queued payload again.
C13_RunKeepsQueue ==
    /\ [][lastOp' = "Run" => (actions' = actions /\ ordered' = ordered)]_vars
    /\ [](rerun =>
            /\ Len(sent) <= Len(Payloads(actions))
            /\ (sent # <<>> => SentPayload(1) = Payloads(actions)[1])
            /\ (FailedAt(sent) = {} =>
                    /\ Len(sent) = Len(Payloads(actions))
                    /\ \A k \in 1..Len(sent) : SentPayload(k) = Payloads(actions)[k]))

\* A Run that followed a Run of a queue of two batches and sent both again.
C13_Witness ==
    /\ rerun /\ ~panicked
    /\ Len(actions) = 2
    /\ actions[1].op = bulkInsert
    /\ Len(sent) = Len(Payloads(actions))
    /\ Len(sent) = 2

\* C14: the writeOp calls of one Run are, in order, a prefix of what the queue
\* holds (the whole of it when no call failed or the Bulk is unordered): the
\* batches in queue order, an insert batch as one insertOp with all documents
\* of the batch in their queued order, an update batch as one call for each
\* directive in queued order.
C14_DispatchOrder ==
    Ran =>
        /\ Len(sent) <= Len(Payloads(actions))
        /\ \A k \in 1..Len(sent) :
               SentPayload(k) = Payloads(actions)[k]
        /\ (FailedAt(sent) = {} \/ ~ordered) => Len(sent) = Len(Payloads(actions))
        /\ Len(sent) < Len(Payloads(actions)) => FailedAt(sent) = {Len(sent)}

\* A Run of an insert batch followed by an update batch: two calls, the
\* insertOp first, the directive second.
C14_Witness ==
    /\ Ran
    /\ Len(actions) = 2
    /\ actions[1].op = bulkInsert /\ Len(actions[1].docs) = 1
    /\ actions[2].op = bulkUpdate /\ Len(actions[2].docs) = 1
    /\ Len(sent) = 2
    /\ sent[1].op = insertOp(actions[1].docs, 0)
    /\ sent[2].op = actions[2].docs[1]

\* C15: every insertOp a Run sends carries flags = 1 (continue on error)
\* exactly when the Bulk is unordered at the time of the Run, and every
\* writeOp call of the Run is passed the ordered flag as its second argument.
C15_FlagsFollowOrdered ==
    Ran =>
        \A k \in 1..Len(sent) :
            /\ sent[k].ordered = ordered
            /\ "documents" \in DOMAIN sent[k].op =>
                   /\ sent[k].op.flags \in {0, 1}
                   /\ sent[k].op.flags = 1 <=> ~ordered

\* An unordered Run that sent an insertOp and an update directive.
C15_Witness ==
    /\ Ran /\ ~ordered
    /\ Len(sent) = 2
    /\ "documents" \in DOMAIN sent[1].op
    /\ sent[1].op.flags = 1
    /\ "Selector" \in DOMAIN sent[2].op
    /\ sent[2].ordered = FALSE

\* C16: after a Stop has stopped the running test server, no later call of
\* Session, SessionRepl, Wipe or Stop leaves a mongod process running again.
C16_NoRestart == stopped => mongod # "running"

\* C17: every queued batch holds write intents of one kind among insert,
\* update-one and update-many: the directives of an update batch are all
\* match-one (queued by Update) or all match-all (queued by UpdateAll, Multi
\* set), never some of each.
C17_OneKindPerBatch ==
    \A i \in 1..Len(actions) :
        /\ actions[i].op \in {bulkInsert, bulkUpdate, bulkUpdateAll}
        /\ actions[i].op # bulkInsert =>
               \A j, k \in 1..Len(actions[i].docs) :
                   actions[i].docs[j].Multi = actions[i].docs[k].Multi

\* C18: every queued batch holds one payload at least, whatever the argument
\* lists of the Insert, Update and UpdateAll calls were, and no insertOp a Run
\* sends is without documents.
C18_NoEmptyBatch ==
    /\ \A i \in 1..Len(actions) : Len(actions[i].docs) >= 1
    /\ Ran => \A k \in 1..Len(sent) :
                  "documents" \in DOMAIN sent[k].op => Len(sent[k].op.documents) >= 1

\* C19: the ordered flag changes only in a call of Unordered and only from
\* true to false (the queueing calls and Run leave it as it is), and once a
\* Run has issued a writeOp call the flag keeps its value through every later
\* call.
C19_OrderedFixedAfterDispatch ==
    [][/\ ordered' # ordered => (lastOp' = "Unordered" /\ ordered /\ ~ordered')
       /\ dispatched => ordered' = ordered]_vars

\* C20: a Transaction is NotStarted, then Started, then Finished: a new one
\* has started and finished false and txnNumber unset, and a finished
\* Transaction is a started one, so that no Commit or Abort leaves a
\* Transaction finished that never started.
C20_FinishedOnlyFromStarted ==
    /\ tlast = "NewTransaction" => (~started /\ ~finished /\ txnNumber = 0)
    /\ finished => started

====
